---- MODULE Spec2Model ----
(***************************************************************************)
(* RStodoApp (src/App.tsx): the App component's todo store (todos, input,  *)
(* addTodo, toggleTodo, deleteTodo) and its notification bridge (the       *)
(* permission / registration flow, the three effects, the message handlers *)
(* and displayNotification).                                               *)
(***************************************************************************)
EXTENDS Integers, Sequences, FiniteSets

\* ---------------------------------------------------------------- bounds
MaxTodos == 2      \* longest todo list explored
MaxTime == 1       \* last clock reading explored (milliseconds 0..MaxTime)
MaxFlows == 2      \* permission flows tracked while in flight
MaxHandlers == 1   \* message handlers tracked while in flight

\* Platform.Version threshold of App.tsx line 78
POST_NOTIFICATIONS_SDK == 33

\* ------------------------------------------------------- strings, trim
\* Texts the user types into the input field: empty, whitespace only, plain,
\* and with leading and trailing whitespace.
Strings == {<<>>, <<" ">>, <<" ", " ">>, <<"a">>, <<" ", "a", " ">>}

IsWhiteSpace(c) == c = " "

RECURSIVE TrimStart(_)
TrimStart(s) ==
  IF s = <<>> THEN s
  ELSE IF IsWhiteSpace(Head(s)) THEN TrimStart(Tail(s)) ELSE s

RECURSIVE TrimEnd(_)
TrimEnd(s) ==
  IF s = <<>> THEN s
  ELSE IF IsWhiteSpace(s[Len(s)]) THEN TrimEnd(SubSeq(s, 1, Len(s) - 1)) ELSE s

\* String.prototype.trim
Trim(s) == TrimEnd(TrimStart(s))

\* Number.prototype.toString, base 10, of a non-negative integer
Digit(d) == <<"0", "1", "2", "3", "4", "5", "6", "7", "8", "9">>[d + 1]

RECURSIVE ToString(_)
ToString(n) ==
  IF n < 10 THEN <<Digit(n)>> ELSE ToString(n \div 10) \o <<Digit(n % 10)>>

Times == 0..MaxTime
Ids == {ToString(t) : t \in Times}

Range(s) == {s[i] : i \in 1..Len(s)}
RemoveAt(s, i) == SubSeq(s, 1, i - 1) \o SubSeq(s, i + 1, Len(s))

VARIABLES
  mounted,    \* the App component is mounted
  todos,      \* useState<Todo[]>([])
  input,      \* useState('')
  now,        \* the wall clock Date.now() reads
  lastOp,     \* the handler or lifecycle step that ran last
  platform,   \* Platform.OS, Platform.Version
  flows,      \* requestUserPermission invocations in flight
  lastDone,   \* the requestUserPermission invocation that completed last
  listeners,  \* per listener: callbacks subscribed now (subs), subscriptions made
              \* since the component was mounted (regs)
  bgHandler,  \* setBackgroundMessageHandler has been called
  handlers,   \* message handlers and initial-notification queries in flight
  lastEvent   \* the last observable outcome of the bridge

vars == <<mounted, todos, input, now, lastOp, platform, flows, lastDone,
          listeners, bgHandler, handlers, lastEvent>>

storeVars == <<todos, input>>
permVars == <<flows, lastDone>>
msgVars == <<listeners, bgHandler, handlers, lastEvent>>

\* ------------------------------------------------------------ todo store
\* addTodo storing the trimmed text instead of the input as typed
addTodo_trimmed(ts, inp, t) ==
  IF Trim(inp) = <<>>
  THEN [todos |-> ts, input |-> inp, set |-> FALSE]
  ELSE [todos |-> Append(ts, [id |-> ToString(t), text |-> Trim(inp), done |-> FALSE]),
        input |-> <<>>, set |-> TRUE]

\* addTodo testing the input without trimming it
addTodo_untrimmedTest(ts, inp, t) ==
  IF inp = <<>>
  THEN [todos |-> ts, input |-> inp, set |-> FALSE]
  ELSE [todos |-> Append(ts, [id |-> ToString(t), text |-> inp, done |-> FALSE]),
        input |-> <<>>, set |-> TRUE]

\* addTodo: the state it sets from (todos, input) with Date.now() = t;
\* set = FALSE is the early return, which sets no state.
addTodo(ts, inp, t) ==
  IF Trim(inp) = <<>>
  THEN [todos |-> ts, input |-> inp, set |-> FALSE]
  ELSE [todos |-> Append(ts, [id |-> ToString(t), text |-> inp, done |-> FALSE]),
        input |-> <<>>, set |-> TRUE]

\* todos.map(todo => todo.id === id ? { ...todo, done: !todo.done } : todo)
toggleTodo(ts, id) ==
  [i \in 1..Len(ts) |->
     IF ts[i].id = id THEN [ts[i] EXCEPT !.done = ~ts[i].done] ELSE ts[i]]

\* todos.filter(todo => todo.id !== id)
deleteTodo(ts, id) == SelectSeq(ts, LAMBDA todo : todo.id # id)

\* ------------------------------------------- permission / registration
Platforms ==
  {p \in [OS : {"ios", "android", "web"},
          Version : {POST_NOTIFICATIONS_SDK - 1, POST_NOTIFICATIONS_SDK}] :
     p.OS = "android" \/ p.Version = POST_NOTIFICATIONS_SDK}

\* messaging.AuthorizationStatus / PermissionsAndroid.RESULTS
AuthorizationStatus == {"NOT_DETERMINED", "DENIED", "AUTHORIZED", "PROVISIONAL", "EPHEMERAL"}
PermissionResults == {"granted", "denied", "never_ask_again"}

\* What the awaited permission request can produce: a value, or an exception.
Outcomes(p) == (IF p.OS = "ios" THEN AuthorizationStatus ELSE PermissionResults) \cup {"throw"}

\* One invocation of requestUserPermission: where it is suspended (pc), what
\* the permission request produced (perm), the calls it has made to
\* registerDeviceForRemoteMessages (reg) and getToken (tok), the catch block
\* that logged (err), and whether an exception left the function (escaped).
NewFlow ==
  [pc |-> "start", perm |-> "none", reg |-> 0, tok |-> 0, err |-> "none", escaped |-> FALSE]

NoFlow == [NewFlow EXCEPT !.pc = "none"]

\* registerDeviceForMessaging up to its first await
registerDeviceForMessaging(f) == [f EXCEPT !.pc = "registerDevice", !.reg = @ + 1]

\* requestUserPermission up to its first await
requestUserPermission(p) ==
  IF p.OS = "ios" THEN [NewFlow EXCEPT !.pc = "requestPermission"]
  ELSE IF p.OS = "android"
    THEN IF p.Version >= POST_NOTIFICATIONS_SDK
           THEN [NewFlow EXCEPT !.pc = "request"]
           ELSE registerDeviceForMessaging(NewFlow)
    ELSE [NewFlow EXCEPT !.pc = "done"]

\* enabled computed as "not denied"
enabled_notDenied(authStatus) == authStatus # "DENIED"

enabled(authStatus) == authStatus = "AUTHORIZED" \/ authStatus = "PROVISIONAL"

\* requestUserPermission resumed with the outcome r of the permission request
permissionResumed(p, f, r) ==
  IF r = "throw"
  THEN [f EXCEPT !.pc = "done", !.perm = r, !.err = "Error requesting permission:"]
  ELSE LET g == [f EXCEPT !.perm = r]
           proceed == IF p.OS = "ios" THEN enabled(r) ELSE r = "granted"
       IN IF proceed THEN registerDeviceForMessaging(g) ELSE [g EXCEPT !.pc = "done"]

\* registerDeviceForMessaging resumed after registerDeviceForRemoteMessages
registerResumed(f, ok) ==
  IF ok THEN [f EXCEPT !.pc = "getToken", !.tok = @ + 1]
  ELSE [f EXCEPT !.pc = "done", !.err = "Error registering device:"]

\* registerDeviceForMessaging resumed after getToken
tokenResumed(f, ok) ==
  IF ok THEN [f EXCEPT !.pc = "done"]
  ELSE [f EXCEPT !.pc = "done", !.err = "Error registering device:"]

\* A flow that reached its end leaves the in-flight list.
Settle(i, f) ==
  IF f.pc = "done"
  THEN flows' = RemoveAt(flows, i) /\ lastDone' = f
  ELSE flows' = [flows EXCEPT ![i] = f] /\ UNCHANGED lastDone

\* ------------------------------------------------------------- effects
\* A useEffect with dependency array [] runs after the mount render only; with
\* no dependency array it runs after every render.
tokenRefreshDeps == "[]"
permissionDeps == "none"
\* the message effect declared without a dependency array
messageDeps_none == "none"
messageDeps == "[]"

RunsOn(deps, mount) == deps = "none" \/ mount

Listeners == {"token", "fg", "opened"}

subscribe(L, k) == [L EXCEPT ![k] = [subs |-> @.subs + 1, regs |-> @.regs + 1]]
unsubscribe(L, k) == [L EXCEPT ![k].subs = @ - 1]

tokenRefreshEffect(L) == subscribe(L, "token")
tokenRefreshCleanup(L) == unsubscribe(L, "token")
messageEffect(L) == subscribe(subscribe(L, "fg"), "opened")
messageCleanup(L) == unsubscribe(unsubscribe(L, "fg"), "opened")

\* The subscriptions after the effects of one render have run; an effect that
\* runs again is preceded by its cleanup.
AfterRender(L, mount) ==
  LET L1 == IF RunsOn(tokenRefreshDeps, mount)
            THEN tokenRefreshEffect(IF mount THEN L ELSE tokenRefreshCleanup(L)) ELSE L
  IN IF RunsOn(messageDeps, mount)
     THEN messageEffect(IF mount THEN L1 ELSE messageCleanup(L1)) ELSE L1

\* ---------------------------------------------------- remote messages
\* An optional value is a sequence of length 0 (undefined) or 1.
None == <<>>
Some(x) == <<x>>

Message(t, b) == [notification |-> Some([title |-> t, body |-> b])]

\* A data-only message, and notifications whose title and body are each
\* omitted, empty or non-empty.
Msgs ==
  {[notification |-> None]} \cup
  {Message(t, b) : t \in {None, Some(""), Some("Hi")}, b \in {None, Some(""), Some("Hello")}}

\* remoteMessage.notification?.title, remoteMessage.notification?.body
OptTitle(m) == IF m.notification = None THEN None ELSE m.notification[1].title
OptBody(m) == IF m.notification = None THEN None ELSE m.notification[1].body

\* a ?? d: only undefined falls back
Or_nullish(a, d) == IF a = None THEN d ELSE a[1]

\* a || d for an optional string a: undefined and '' are falsy
Or(a, d) == IF a = None \/ a = Some("") THEN d ELSE a[1]

\* The argument displayNotification passes to notifee.displayNotification
notification(m) ==
  [title |-> Or(OptTitle(m), "New Notification"),
   body |-> Or(OptBody(m), "You have a new message")]

\* One run of a message handler (ctx "foreground" / "background") or of the
\* getInitialNotification query (ctx "initial"), suspended at pc.
Handler(ctx, m) == [ctx |-> ctx, pc |-> "requestPermission", msg |-> m]
InitialQuery == [ctx |-> "initial", pc |-> "getInitialNotification", msg |-> [notification |-> None]]

\* displayNotification resumed after notifee.requestPermission,
\* notifee.createChannel, notifee.displayNotification: an exception of the
\* awaited call rejects displayNotification and, through the handler's await,
\* the handler's promise.
notifeePermissionResumed(h, ok) ==
  IF ok THEN [h EXCEPT !.pc = "createChannel"] ELSE [h EXCEPT !.pc = "rejected"]

createChannelResumed(h, ok) ==
  IF ok THEN [h EXCEPT !.pc = "displayNotification"] ELSE [h EXCEPT !.pc = "rejected"]

displayResumed(h, ok) ==
  IF ok THEN [h EXCEPT !.pc = "done"] ELSE [h EXCEPT !.pc = "rejected"]

\* getInitialNotification().then(...): no rejection handler is attached
initialNotificationResumed(h, ok) ==
  IF ok THEN [h EXCEPT !.pc = "done"] ELSE [h EXCEPT !.pc = "rejected"]

NoEvent ==
  [kind |-> "none", invoked |-> 0, mounted |-> FALSE, source |-> "",
   msg |-> [notification |-> None], title |-> "", body |-> ""]

\* An event of the messaging service reached n callbacks of the component.
Dispatched(kind, n) == [NoEvent EXCEPT !.kind = kind, !.invoked = n, !.mounted = mounted]
\* notifee.displayNotification was called for message m.
Displayed(m) ==
  [NoEvent EXCEPT !.kind = "display", !.msg = m,
                  !.title = notification(m).title, !.body = notification(m).body]
\* The promise of a handler, or of the initial query's chain, was rejected.
Rejected(ctx) == [NoEvent EXCEPT !.kind = "rejected", !.source = ctx]

SettleHandler(i, h) ==
  IF h.pc \in {"done", "rejected"}
  THEN handlers' = RemoveAt(handlers, i)
  ELSE handlers' = [handlers EXCEPT ![i] = h]

\* ----------------------------------------------------------------- Init
Init ==
  /\ mounted = FALSE
  /\ todos = <<>>
  /\ input = <<>>
  /\ now = 0
  /\ lastOp = "none"
  /\ platform \in Platforms
  /\ flows = <<>>
  /\ lastDone = NoFlow
  /\ listeners = [k \in Listeners |-> [subs |-> 0, regs |-> 0]]
  /\ bgHandler = FALSE
  /\ handlers = <<>>
  /\ lastEvent = NoEvent

\* ------------------------------------------------- render and effects
\* useEffect(() => { requestUserPermission(); }); of the invocations in flight
\* the first MaxFlows are tracked.
PermissionEffect(mount) ==
  IF RunsOn(permissionDeps, mount)
  THEN LET f == requestUserPermission(platform)
       IN IF f.pc = "done"
          THEN lastDone' = f /\ UNCHANGED flows
          ELSE /\ flows' = IF Len(flows) < MaxFlows THEN Append(flows, f) ELSE flows
               /\ UNCHANGED lastDone
  ELSE UNCHANGED permVars

\* The message effect besides its two subscriptions: setBackgroundMessageHandler
\* and the getInitialNotification query (tracked while MaxHandlers allows).
MessageEffectCalls(mount) ==
  IF RunsOn(messageDeps, mount)
  THEN /\ bgHandler' = TRUE
       /\ handlers' = IF Len(handlers) < MaxHandlers
                      THEN Append(handlers, InitialQuery) ELSE handlers
  ELSE UNCHANGED <<bgHandler, handlers>>

\* A committed render followed by its effects, in the order they are declared.
Render(mount) ==
  /\ listeners' =
       AfterRender(IF mount THEN [k \in Listeners |-> [listeners[k] EXCEPT !.regs = 0]]
                   ELSE listeners, mount)
  /\ PermissionEffect(mount)
  /\ MessageEffectCalls(mount)

Mount ==
  /\ ~mounted
  /\ mounted' = TRUE
  /\ todos' = <<>>
  /\ input' = <<>>
  /\ lastOp' = "mount"
  /\ Render(TRUE)
  /\ UNCHANGED <<now, platform, lastEvent>>

\* Unmounting runs the cleanups of both subscribing effects and discards the
\* component's state.
Unmount ==
  /\ mounted
  /\ mounted' = FALSE
  /\ todos' = <<>>
  /\ input' = <<>>
  /\ lastOp' = "unmount"
  /\ listeners' = messageCleanup(tokenRefreshCleanup(listeners))
  /\ UNCHANGED <<now, platform, permVars, bgHandler, handlers, lastEvent>>

\* ------------------------------------------------------- store handlers
\* onChangeText={setInput}
SetInput(s) ==
  /\ mounted
  /\ s # input
  /\ input' = s
  /\ lastOp' = "setInput"
  /\ Render(FALSE)
  /\ UNCHANGED <<mounted, todos, now, platform, lastEvent>>

\* onPress={addTodo}
AddTodo ==
  /\ mounted
  /\ LET r == addTodo(todos, input, now)
     IN /\ Len(r.todos) <= MaxTodos
        /\ todos' = r.todos
        /\ input' = r.input
        /\ IF r.set THEN Render(FALSE)
           ELSE UNCHANGED <<permVars, listeners, bgHandler, handlers>>
  /\ lastOp' = "add"
  /\ UNCHANGED <<mounted, now, platform, lastEvent>>

\* onPress={() => toggleTodo(item.id)}
ToggleTodo(id) ==
  /\ mounted
  /\ todos' = toggleTodo(todos, id)
  /\ lastOp' = "toggle"
  /\ Render(FALSE)
  /\ UNCHANGED <<mounted, input, now, platform, lastEvent>>

\* onPress={() => deleteTodo(item.id)}
DeleteTodo(id) ==
  /\ mounted
  /\ todos' = deleteTodo(todos, id)
  /\ lastOp' = "delete"
  /\ Render(FALSE)
  /\ UNCHANGED <<mounted, input, now, platform, lastEvent>>

\* The wall clock advances by a millisecond.
Tick ==
  /\ now < MaxTime
  /\ now' = now + 1
  /\ UNCHANGED <<mounted, storeVars, lastOp, platform, permVars, msgVars>>

\* The wall clock is set back (Date.now() is not monotonic).
ClockAdjust ==
  /\ \E t \in Times : t < now /\ now' = t
  /\ UNCHANGED <<mounted, storeVars, lastOp, platform, permVars, msgVars>>

\* --------------------------------------------- permission flow resumes
notFlow == <<mounted, storeVars, now, lastOp, platform, msgVars>>

PermissionResult(i, r) ==
  /\ flows[i].pc \in {"requestPermission", "request"}
  /\ r \in Outcomes(platform)
  /\ Settle(i, permissionResumed(platform, flows[i], r))
  /\ UNCHANGED notFlow

RegisterResult(i, ok) ==
  /\ flows[i].pc = "registerDevice"
  /\ Settle(i, registerResumed(flows[i], ok))
  /\ UNCHANGED notFlow

TokenResult(i, ok) ==
  /\ flows[i].pc = "getToken"
  /\ Settle(i, tokenResumed(flows[i], ok))
  /\ UNCHANGED notFlow

\* ---------------------------------------- messaging events and handlers
notMsg == <<mounted, storeVars, now, lastOp, platform, permVars>>

\* The messaging service issues a new token.
TokenRefresh ==
  /\ lastEvent' = Dispatched("tokenRefresh", listeners["token"].subs)
  /\ UNCHANGED <<notMsg, listeners, bgHandler, handlers>>

\* The user opens the app from a notification while it is in the background.
NotificationOpened ==
  /\ lastEvent' = Dispatched("opened", listeners["opened"].subs)
  /\ UNCHANGED <<notMsg, listeners, bgHandler, handlers>>

\* A remote message arrives while the app is in the foreground.
ForegroundMessage(m) ==
  /\ lastEvent' = Dispatched("message", listeners["fg"].subs)
  /\ IF listeners["fg"].subs > 0
     THEN /\ Len(handlers) < MaxHandlers
          /\ handlers' = Append(handlers, Handler("foreground", m))
     ELSE UNCHANGED handlers
  /\ UNCHANGED <<notMsg, listeners, bgHandler>>

\* A remote message arrives while the app is in the background.
BackgroundMessage(m) ==
  /\ bgHandler
  /\ Len(handlers) < MaxHandlers
  /\ handlers' = Append(handlers, Handler("background", m))
  /\ lastEvent' = Dispatched("background", 1)
  /\ UNCHANGED <<notMsg, listeners, bgHandler>>

Resume(i, h) ==
  /\ SettleHandler(i, h)
  /\ lastEvent' = IF h.pc = "rejected" THEN Rejected(h.ctx)
                  ELSE IF h.pc = "displayNotification" THEN Displayed(h.msg)
                  ELSE lastEvent
  /\ UNCHANGED <<notMsg, listeners, bgHandler>>

NotifeePermissionResult(i, ok) ==
  /\ handlers[i].pc = "requestPermission"
  /\ Resume(i, notifeePermissionResumed(handlers[i], ok))

CreateChannelResult(i, ok) ==
  /\ handlers[i].pc = "createChannel"
  /\ Resume(i, createChannelResumed(handlers[i], ok))

DisplayResult(i, ok) ==
  /\ handlers[i].pc = "displayNotification"
  /\ Resume(i, displayResumed(handlers[i], ok))

InitialNotificationResult(i, ok) ==
  /\ handlers[i].pc = "getInitialNotification"
  /\ Resume(i, initialNotificationResumed(handlers[i], ok))

\* ------------------------------------------------------ specifications
Lifecycle == Mount \/ Unmount

StoreStep ==
  \/ \E s \in Strings : SetInput(s)
  \/ AddTodo
  \/ \E id \in Ids : ToggleTodo(id)
  \/ \E id \in Ids : DeleteTodo(id)

ClockStep == Tick \/ ClockAdjust

FlowStep ==
  \E i \in 1..Len(flows) :
    \/ \E r \in AuthorizationStatus \cup PermissionResults \cup {"throw"} : PermissionResult(i, r)
    \/ \E ok \in BOOLEAN : RegisterResult(i, ok)
    \/ \E ok \in BOOLEAN : TokenResult(i, ok)

MessagingEvent ==
  \/ TokenRefresh
  \/ NotificationOpened
  \/ \E m \in Msgs : ForegroundMessage(m)
  \/ \E m \in Msgs : BackgroundMessage(m)

HandlerStep ==
  \E i \in 1..Len(handlers), ok \in BOOLEAN :
    \/ NotifeePermissionResult(i, ok)
    \/ CreateChannelResult(i, ok)
    \/ DisplayResult(i, ok)
    \/ InitialNotificationResult(i, ok)

\* The todo store: the component's handlers and the clock they read.
Next == Lifecycle \/ StoreStep \/ ClockStep
Spec == Init /\ [][Next]_vars

\* The permission / registration flow under re-renders.
NextPerm == Lifecycle \/ (\E s \in Strings : SetInput(s)) \/ FlowStep
SpecPerm == Init /\ [][NextPerm]_vars

\* The listeners and the message handlers under re-renders.
NextMsg == Lifecycle \/ (\E s \in Strings : SetInput(s)) \/ MessagingEvent \/ HandlerStep
SpecMsg == Init /\ [][NextMsg]_vars

\* ================================================================ claims
HasId(ts, id) == \E i \in 1..Len(ts) : ts[i].id = id

\* C1: no two notes of the list have the same id.
C1_UniqueIds ==
  \A i, j \in 1..Len(todos) : i # j => todos[i].id # todos[j].id

\* C2: add with an input whose trimmed form is non-empty lengthens the list by
\* exactly one, appends the new note last with done = FALSE and text = the
\* input, and keeps every earlier note and its position.
C2_AddAppends ==
  [][(AddTodo /\ Trim(input) # <<>>) =>
       /\ Len(todos') = Len(todos) + 1
       /\ todos'[Len(todos')].done = FALSE
       /\ todos'[Len(todos')].text = input
       /\ SubSeq(todos', 1, Len(todos)) = todos]_vars

C2_Witness ==
  /\ lastOp = "add"
  /\ input = <<>>
  /\ Len(todos) = 2
  /\ todos[1].done
  /\ todos[2] = [id |-> ToString(now), text |-> <<" ", "a", " ">>, done |-> FALSE]

\* C3: toggle(id) of a present id flips the done flag of exactly one entry and
\* leaves every other entry, the length and the order unchanged; toggle of an
\* absent id leaves the list unchanged.
C3_ToggleExactlyOne ==
  [][\A id \in Ids : ToggleTodo(id) =>
       IF HasId(todos, id)
       THEN \E i \in 1..Len(todos) :
              /\ todos[i].id = id
              /\ todos' = [todos EXCEPT ![i].done = ~todos[i].done]
       ELSE todos' = todos]_vars

\* C4: delete(id) removes exactly one entry when the id is present (the rest
\* unchanged and in order) and nothing otherwise; the length never grows.
C4_DeleteExactlyOne ==
  [][\A id \in Ids : DeleteTodo(id) =>
       /\ Len(todos') <= Len(todos)
       /\ IF HasId(todos, id)
          THEN \E i \in 1..Len(todos) : todos[i].id = id /\ todos' = RemoveAt(todos, i)
          ELSE todos' = todos]_vars

\* C5: add with an empty or whitespace-only input leaves the list unchanged.
C5_BlankAddNoop ==
  [][(AddTodo /\ \A i \in 1..Len(input) : input[i] = " ") => todos' = todos]_vars

C5_Witness ==
  /\ lastOp = "add"
  /\ input = <<" ", " ">>
  /\ Len(todos) = 1

\* C6: a run of the permission flow whose permission was denied, or whose
\* permission request threw, makes no registration call and no token fetch,
\* and lets no error escape; registration is attempted only after a grant, or
\* on Android below SDK 33.
Denied(f) ==
  \/ f.perm = "throw"
  \/ platform.OS = "ios" /\ f.perm \in AuthorizationStatus \ {"AUTHORIZED", "PROVISIONAL"}
  \/ platform.OS = "android" /\ f.perm \in PermissionResults \ {"granted"}

Granted(f) ==
  \/ platform.OS = "ios" /\ f.perm \in {"AUTHORIZED", "PROVISIONAL"}
  \/ platform.OS = "android" /\ f.perm = "granted"

C6_DeniedNoRegistration ==
  \A f \in Range(flows) \cup {lastDone} :
    /\ ~f.escaped
    /\ Denied(f) => f.reg = 0 /\ f.tok = 0
    /\ f.reg > 0 \/ f.tok > 0 =>
         \/ Granted(f)
         \/ platform.OS = "android" /\ platform.Version < POST_NOTIFICATIONS_SDK /\ f.perm = "none"

C6_Witness ==
  /\ platform.OS = "ios"
  /\ lastDone.pc = "done"
  /\ lastDone.perm = "NOT_DETERMINED"
  /\ lastDone.reg = 0

\* C7: no rejected promise leaves the foreground handler, the background
\* handler, the initial-notification query or the permission flow.
C7_NothingEscapes ==
  /\ lastEvent.kind # "rejected"
  /\ \A f \in Range(flows) \cup {lastDone} : ~f.escaped

\* C8 as stated: the fallback strings when the message omits title and body,
\* the provided values whenever the message carries a title and a body, the
\* empty string included.
C8_ProvidedVerbatim ==
  lastEvent.kind = "display" =>
    LET t == OptTitle(lastEvent.msg)
        b == OptBody(lastEvent.msg)
    IN /\ (t = None /\ b = None) =>
            lastEvent.title = "New Notification" /\ lastEvent.body = "You have a new message"
       /\ (t # None /\ b # None) => lastEvent.title = t[1] /\ lastEvent.body = b[1]

\* C8 amended: a title (body) that is omitted or empty is displayed as the
\* fallback string; a non-empty title (body) is displayed as provided.
C8_NonEmptyVerbatim ==
  lastEvent.kind = "display" =>
    LET t == OptTitle(lastEvent.msg)
        b == OptBody(lastEvent.msg)
    IN /\ lastEvent.title = IF t \in {None, Some("")} THEN "New Notification" ELSE t[1]
       /\ lastEvent.body = IF b \in {None, Some("")} THEN "You have a new message" ELSE b[1]

C8_Witness ==
  /\ lastEvent.kind = "display"
  /\ lastEvent.msg = Message(Some("Hi"), Some("Hello"))
  /\ lastEvent.title = "Hi"
  /\ lastEvent.body = "Hello"

\* C9: at most one invocation of the permission flow is in progress.
C9_OneFlowInProgress == Len(flows) <= 1

\* C10: each of the three listeners is subscribed exactly once per mount
\* whatever the number of re-renders, stays subscribed while mounted, and is
\* not subscribed after teardown: an event after unmount reaches no callback.
C10_ListenersOncePerMount ==
  /\ \A k \in Listeners :
       /\ mounted => listeners[k].subs = 1 /\ listeners[k].regs = 1
       /\ ~mounted => listeners[k].subs = 0
  /\ lastEvent.kind \in {"tokenRefresh", "message", "opened"} =>
       lastEvent.invoked = IF lastEvent.mounted THEN 1 ELSE 0

C10_Witness ==
  /\ ~mounted
  /\ lastOp = "unmount"
  /\ lastEvent.kind = "message"
  /\ ~lastEvent.mounted
  /\ lastEvent.invoked = 0

====
